---- MODULE Spec2Model ----
(***************************************************************************)
(* Model of the process orchestrator: ProcessManager                       *)
(* (src/orchestrator/process_manager.py) driving child processes under    *)
(* the admission control of ResourceMonitor                                *)
(* (src/orchestrator/resource_monitor.py).                                 *)
(*                                                                         *)
(* Input files are numbered 1..NumFiles.  A child process is an entry of   *)
(* the sequence children: the file it was forked for and its return code   *)
(* (Running while Popen.poll() would still return None).                   *)
(***************************************************************************)
EXTENDS Integers, Sequences, FiniteSets, TLC

\* ------------------------------------------------------------------ bounds
NumFiles == 2
MaxManifest == 4
MaxCap == 2

\* ------------------------------------------------------- program constants
max_retries == 3
monitoring_interval == 5
DefaultCpuPercent == 80
DefaultMemoryPercent == 80
DefaultDiskPercent == 90
\* throttle_threshold = 0.9 and recovery_threshold = 0.7, kept as tenths
ThrottleTenths == 9
RecoveryTenths == 7

Files == 1..NumFiles
Running == -1
ExitCodes == {0, 1}
NoExit == -1

\* host snapshots psutil can report (percent): calm, cpu above the throttle
\* threshold but under its ceiling, memory at its ceiling, disk over its
\* ceiling
Metrics ==
  {[cpu_percent |-> 50, memory_percent |-> 50, disk_percent |-> 50],
   [cpu_percent |-> 75, memory_percent |-> 50, disk_percent |-> 50],
   [cpu_percent |-> 50, memory_percent |-> 80, disk_percent |-> 50],
   [cpu_percent |-> 50, memory_percent |-> 50, disk_percent |-> 95]}

\* Manifests of up to MaxManifest lines.  File numbers are only names, so
\* the files are numbered in the order of their first line.
Range(seq) == {seq[i] : i \in 1..Len(seq)}

FirstUseOrder(m) ==
  \A i \in 1..Len(m) : m[i] = 1 \/ \E j \in 1..(i - 1) : m[j] = m[i] - 1

Manifests ==
  {m \in UNION {[1..n -> Files] : n \in 0..MaxManifest} : FirstUseOrder(m)}

VARIABLES
  pc,                     \* position of the program
  raised,                 \* name of the exception that ended it, "" if none
  exit_code,              \* value returned by run(), NoExit before that
  manifest,               \* non-blank lines of input_file_list
  missing,                \* files for which os.path.isfile is false
  children,               \* every child forked so far: [file, rc]
  processes,              \* self.processes, in insertion order: [file, child]
  completed_files,
  failed_files,
  retry_counts,
  current_index,
  thresholds,             \* resource_monitor.thresholds
  throttled,
  original_max_processes,
  running_processes,      \* keys of resource_monitor.running_processes
  elapsed,                \* seconds since last_check, saturating at the interval
  throttle_threshold,     \* resource_monitor.throttle_threshold, in tenths
  recovery_threshold,     \* resource_monitor.recovery_threshold, in tenths
  last,                   \* the latest call made on the object from outside
  calibration,            \* locals and result of ProcessCalibrator.calibrate
  flags                   \* config.binary.flags: templates, each a list of parts

vars == <<pc, raised, exit_code, manifest, missing, children, processes,
          completed_files, failed_files, retry_counts, current_index,
          thresholds, throttled, original_max_processes, running_processes,
          elapsed, throttle_threshold, recovery_threshold, last,
          calibration, flags>>

\* what no step of run() or of the constructor changes
callVars == <<throttle_threshold, recovery_threshold, last, calibration,
              flags>>

monitorVars == <<thresholds, throttled, original_max_processes,
                 running_processes, elapsed>>

\* ----------------------------------------------------------------- helpers
\* Calls made on a constructed object from outside run() are recorded in
\* last: the method, its file argument, whether the file was "tracked",
\* "missing" or "new" when start_process was called, what the call returned
\* or raised, whether the refresh took a fresh snapshot, whether the monitor
\* was throttled when called, the snapshot a call of update_process_metrics
\* took, the snapshot read by the admission test, the number of host
\* snapshots the call read, and whether the refresh found a registered
\* process gone, the command build_command returned and whether
\* start_process hands such a command to a shell.  turn alternates with
\* every call, so that two equal calls in a row are told apart.
NoMetrics == [cpu_percent |-> 0, memory_percent |-> 0, disk_percent |-> 0]

NoCall == [op |-> "", file |-> 0, pre |-> "", result |-> "", fresh |-> FALSE,
           was_throttled |-> FALSE, snap |-> NoMetrics, probe |-> NoMetrics,
           reads |-> 0, vanished |-> FALSE, cmd |-> <<>>, shell |-> FALSE,
           turn |-> 0]

\* the readings of a measurement, before any was taken
NoReadings == [cpu_count |-> 0, total_memory |-> 0, rss |-> 0,
               free_disk |-> 0, size |-> 0]

\* calibrate() before its first statement.  result is "" while it runs,
\* then "none", "proposed" or the name of the exception that left it;
\* readings are the counters the measurement read, max_processes the cap it
\* returned and manager_max_processes the cap the measurement of
\* ProcessManager._calibrate_resource_usage computes from the same readings.
NoCalibration == [attempt |-> 0, last_cpu |-> 0, stable_count |-> 0,
                  result |-> "", readings |-> NoReadings,
                  max_processes |-> 0, manager_max_processes |-> 0]

Called(op) == last' # last /\ last'.op = op

InList(list, f) == \E i \in 1..Len(list) : list[i] = f

InProcesses(f) == \E i \in 1..Len(processes) : processes[i].file = f

DelKey(procs, f) == SelectSeq(procs, LAMBDA e : e.file # f)

Min2(a, b) == IF a <= b THEN a ELSE b
Max2(a, b) == IF a >= b THEN a ELSE b

Forks(f) == Cardinality({i \in 1..Len(children) : children[i].file = f})

Live(f) ==
  Cardinality({i \in 1..Len(children) :
                 children[i].file = f /\ children[i].rc = Running})

\* resource_monitor.running_processes is built as a dict ({}), and a dict
\* has neither .add nor .remove: both calls ProcessManager makes on it raise
\* AttributeError.
RegistryIsDict == TRUE

\* ------------------------------------------------------- ResourceMonitor
\* the throttle test with >= for >
AboveThrottleOrEqual(m, thr) ==
  \/ 10 * m.cpu_percent >= throttle_threshold * thr.cpu_percent
  \/ 10 * m.memory_percent >= throttle_threshold * thr.memory_percent
  \/ 10 * m.disk_percent >= throttle_threshold * thr.disk_percent

\* resource_usage > throttle_threshold, with resource_usage the largest of
\* the three reading/threshold ratios
AboveThrottle(m, thr) ==
  \/ 10 * m.cpu_percent > throttle_threshold * thr.cpu_percent
  \/ 10 * m.memory_percent > throttle_threshold * thr.memory_percent
  \/ 10 * m.disk_percent > throttle_threshold * thr.disk_percent

\* recovery already at a pressure equal to recovery_threshold
BelowRecoveryOrEqual(m, thr) ==
  /\ 10 * m.cpu_percent <= recovery_threshold * thr.cpu_percent
  /\ 10 * m.memory_percent <= recovery_threshold * thr.memory_percent
  /\ 10 * m.disk_percent <= recovery_threshold * thr.disk_percent

\* resource_usage < recovery_threshold
BelowRecovery(m, thr) ==
  /\ 10 * m.cpu_percent < recovery_threshold * thr.cpu_percent
  /\ 10 * m.memory_percent < recovery_threshold * thr.memory_percent
  /\ 10 * m.disk_percent < recovery_threshold * thr.disk_percent

\* the scaling rounded up instead of down
ScaledByRoundedUp(n, ceiling, reading) ==
  ((n * ceiling * 8) + (Max2(reading, 1) * 10) - 1) \div (Max2(reading, 1) * 10)

\* int(current_processes * ratio * 0.8) for one resource
ScaledBy(n, ceiling, reading) == (n * ceiling * 8) \div (Max2(reading, 1) * 10)

\* _apply_throttling without the floor of 1
ApplyThrottlingNoFloor(n, m, thr) ==
  Min2((n * thr.cpu_percent * 8) \div (Max2(m.cpu_percent, 1) * 10),
       Min2((n * thr.memory_percent * 8) \div (Max2(m.memory_percent, 1) * 10),
            (n * thr.disk_percent * 8) \div (Max2(m.disk_percent, 1) * 10)))

\* _apply_throttling without the 0.8 of headroom
ApplyThrottlingNoHeadroom(n, m, thr) ==
  Max2(1, Min2((n * thr.cpu_percent) \div Max2(m.cpu_percent, 1),
               Min2((n * thr.memory_percent) \div Max2(m.memory_percent, 1),
                    (n * thr.disk_percent) \div Max2(m.disk_percent, 1))))

\* _apply_throttling: the new max_processes
ApplyThrottling(n, m, thr) ==
  Max2(1, Min2(ScaledBy(n, thr.cpu_percent, m.cpu_percent),
               Min2(ScaledBy(n, thr.memory_percent, m.memory_percent),
                    ScaledBy(n, thr.disk_percent, m.disk_percent))))

\* update_process_metrics whose recovery clears the flag but keeps the cap
UpdateProcessMetricsKeepsCap(m, dead) ==
  IF elapsed < monitoring_interval
  THEN [thresholds |-> thresholds, throttled |-> throttled,
        running_processes |-> running_processes, elapsed |-> elapsed]
  ELSE LET activate == ~throttled /\ AboveThrottle(m, thresholds)
           recover == throttled /\ BelowRecovery(m, thresholds)
           cap == IF activate
                  THEN ApplyThrottling(Cardinality(running_processes), m,
                                       thresholds)
                  ELSE thresholds.max_processes
       IN [thresholds |-> [thresholds EXCEPT !.max_processes = cap],
           throttled |-> IF activate THEN TRUE
                         ELSE IF recover THEN FALSE ELSE throttled,
           running_processes |-> running_processes \ dead,
           elapsed |-> 0]

\* update_process_metrics whose debounce ends a second early
UpdateProcessMetricsShortDebounce(m, dead) ==
  IF elapsed < monitoring_interval - 1
  THEN [thresholds |-> thresholds, throttled |-> throttled,
        running_processes |-> running_processes, elapsed |-> elapsed]
  ELSE [thresholds |-> thresholds, throttled |-> throttled,
        running_processes |-> running_processes \ dead, elapsed |-> 0]

\* update_process_metrics whose throttle activation unregisters every child
UpdateProcessMetricsEvicts(m, dead) ==
  IF elapsed < monitoring_interval
  THEN [thresholds |-> thresholds, throttled |-> throttled,
        running_processes |-> running_processes, elapsed |-> elapsed]
  ELSE LET activate == ~throttled /\ AboveThrottle(m, thresholds)
           recover == throttled /\ BelowRecovery(m, thresholds)
       IN [thresholds |-> thresholds,
           throttled |-> IF activate THEN TRUE
                         ELSE IF recover THEN FALSE ELSE throttled,
           running_processes |-> IF activate THEN {}
                                 ELSE running_processes \ dead,
           elapsed |-> 0]

\* update_process_metrics with host snapshot m; dead are the registered
\* children whose psutil lookup raises NoSuchProcess/AccessDenied
UpdateProcessMetrics(m, dead) ==
  IF elapsed < monitoring_interval
  THEN [thresholds |-> thresholds, throttled |-> throttled,
        running_processes |-> running_processes, elapsed |-> elapsed]
  ELSE LET activate == ~throttled /\ AboveThrottle(m, thresholds)
           recover == throttled /\ BelowRecovery(m, thresholds)
           cap == IF activate
                  THEN ApplyThrottling(Cardinality(running_processes), m,
                                       thresholds)
                  ELSE IF recover THEN original_max_processes
                  ELSE thresholds.max_processes
       IN [thresholds |-> [thresholds EXCEPT !.max_processes = cap],
           throttled |-> IF activate THEN TRUE
                         ELSE IF recover THEN FALSE ELSE throttled,
           running_processes |-> running_processes \ dead,
           elapsed |-> 0]

\* can_start_new_process admitting at a reading equal to its ceiling
CanStartNewProcessAtCeiling(m1, dead, m2) ==
  LET mon == UpdateProcessMetrics(m1, dead)
      thr == mon.thresholds
      ok == /\ ~(Cardinality(mon.running_processes) >= thr.max_processes)
            /\ m2.cpu_percent <= thr.cpu_percent
            /\ m2.memory_percent <= thr.memory_percent
            /\ m2.disk_percent <= thr.disk_percent
  IN [mon |-> mon, result |-> ok]

\* can_start_new_process: the refresh (snapshot m1), then the count cap and
\* the three strict ceilings against a second snapshot m2
CanStartNewProcess(m1, dead, m2) ==
  LET mon == UpdateProcessMetrics(m1, dead)
      thr == mon.thresholds
      ok == /\ ~(Cardinality(mon.running_processes) >= thr.max_processes)
            /\ m2.cpu_percent < thr.cpu_percent
            /\ m2.memory_percent < thr.memory_percent
            /\ m2.disk_percent < thr.disk_percent
  IN [mon |-> mon, result |-> ok]

\* --------------------------------------------------------- ProcessManager
\* start_process that forks the child but records it nowhere
StartProcessUntracked(input_file, popen_ok, registry) ==
  LET same == [result |-> "none", processes |-> processes,
               children |-> children, failed_files |-> failed_files,
               running_processes |-> registry]
  IN IF InProcesses(input_file) THEN same
     ELSE IF InList(completed_files, input_file) THEN same
     ELSE IF InList(failed_files, input_file) THEN same
     ELSE IF input_file \in missing
     THEN [same EXCEPT !.result = "FileNotFoundError"]
     ELSE IF ~popen_ok
     THEN [same EXCEPT !.failed_files = Append(failed_files, input_file)]
     ELSE [same EXCEPT !.children =
                         Append(children,
                                [file |-> input_file, rc |-> Running])]

\* start_process that records a missing input as failed instead of raising
StartProcessMissingFails(input_file, popen_ok, registry) ==
  IF ~InProcesses(input_file) /\ ~InList(completed_files, input_file)
     /\ ~InList(failed_files, input_file) /\ input_file \in missing
  THEN [result |-> "none", processes |-> processes, children |-> children,
        failed_files |-> Append(failed_files, input_file),
        running_processes |-> registry]
  ELSE StartProcessUntracked(input_file, TRUE, registry)

\* start_process without the test of failed_files
StartProcessRetriesFailed(input_file, popen_ok, registry) ==
  LET same == [result |-> "none", processes |-> processes,
               children |-> children, failed_files |-> failed_files,
               running_processes |-> registry]
  IN IF InProcesses(input_file) THEN same
     ELSE IF InList(completed_files, input_file) THEN same
     ELSE IF input_file \in missing
     THEN [same EXCEPT !.result = "FileNotFoundError"]
     ELSE [same EXCEPT !.failed_files = Append(failed_files, input_file)]

\* start_process(input_file).  popen_ok is whether subprocess.Popen returns
\* a child (FALSE: it raises); registry is running_processes as the caller
\* left it.  The result is "process", "none" or the name of the exception
\* that escapes.
StartProcess(input_file, popen_ok, registry) ==
  LET same == [result |-> "none", processes |-> processes,
               children |-> children, failed_files |-> failed_files,
               running_processes |-> registry]
      forked == Append(children, [file |-> input_file, rc |-> Running])
      tracked == Append(processes,
                        [file |-> input_file, child |-> Len(children) + 1])
  IN IF InProcesses(input_file) THEN same
     ELSE IF InList(completed_files, input_file) THEN same
     ELSE IF InList(failed_files, input_file) THEN same
     ELSE IF input_file \in missing
     THEN [same EXCEPT !.result = "FileNotFoundError"]
     ELSE IF ~popen_ok
     THEN [same EXCEPT !.failed_files = Append(failed_files, input_file)]
     ELSE IF RegistryIsDict
     \* the child is forked and recorded in self.processes, then .add raises
     \* AttributeError, which the except clause turns into a failed file
     THEN [result |-> "none", processes |-> tracked, children |-> forked,
           failed_files |-> Append(failed_files, input_file),
           running_processes |-> registry]
     ELSE [result |-> "process", processes |-> tracked, children |-> forked,
           failed_files |-> failed_files,
           running_processes |-> registry \cup {input_file}]

\* _check_process that gives up only after max_retries is exceeded
CheckProcessOffByOne(input_file, return_code, s) ==
  IF return_code = Running THEN [s EXCEPT !.result = "None"]
  ELSE IF return_code = 0
  THEN [s EXCEPT !.result = "True",
                 !.completed_files = Append(@, input_file)]
  ELSE LET n == s.retry_counts[input_file] + 1
       IN IF n > max_retries
          THEN [s EXCEPT !.result = "False",
                         !.retry_counts[input_file] = n,
                         !.failed_files = Append(@, input_file)]
          ELSE [s EXCEPT !.result = "None", !.retry_counts[input_file] = n]

\* _check_process(input_file, process) on the lists in s, for a child whose
\* poll() returns return_code
CheckProcess(input_file, return_code, s) ==
  IF return_code = Running THEN [s EXCEPT !.result = "None"]
  ELSE IF return_code = 0
  THEN [s EXCEPT !.result = "True",
                 !.completed_files = Append(@, input_file)]
  ELSE LET n == s.retry_counts[input_file] + 1
       IN IF n >= max_retries
          THEN [s EXCEPT !.result = "False",
                         !.retry_counts[input_file] = n,
                         !.failed_files = Append(@, input_file)]
          ELSE [s EXCEPT !.result = "None", !.retry_counts[input_file] = n]

\* the polling loop of _check_processes from entry i on
RECURSIVE PollFrom(_, _)
PollFrom(i, s) ==
  IF i > Len(processes) THEN s
  ELSE LET e == processes[i]
           r == CheckProcess(e.file, children[e.child].rc, s)
       IN PollFrom(i + 1,
                   IF r.result = "None" THEN r
                   ELSE [r EXCEPT !.finished = Append(@, e.file)])

\* the removal loop of _check_processes over the finished files
RECURSIVE RemoveFinished(_, _)
RemoveFinished(finished, s) ==
  IF finished = <<>> THEN s
  ELSE LET f == Head(finished)
           deleted == [s EXCEPT !.processes = DelKey(@, f)]
       IN IF RegistryIsDict
          THEN [deleted EXCEPT !.raised = "AttributeError"]
          ELSE IF f \notin s.running_processes
          THEN [deleted EXCEPT !.raised = "KeyError"]
          ELSE RemoveFinished(Tail(finished),
                              [deleted EXCEPT !.running_processes = @ \ {f}])

\* the loop test of run() returning 1 when no manifest entry was visited
LoopTestFailsOnNoWork(idx, procs, failed) ==
  IF idx < Len(manifest) \/ procs # <<>>
  THEN pc' = "check" /\ exit_code' = exit_code
  ELSE pc' = "done"
       /\ exit_code' = (IF failed # <<>> \/ idx = 0 THEN 1 ELSE 0)

\* the test of the outer while of run() and, when it fails, the return value
LoopTest(idx, procs, failed) ==
  IF idx < Len(manifest) \/ procs # <<>>
  THEN pc' = "check" /\ exit_code' = exit_code
  ELSE pc' = "done" /\ exit_code' = (IF failed # <<>> THEN 1 ELSE 0)

\* ----------------------------------------------------------------- actions
Init ==
  /\ pc = "constructing"
  /\ raised = ""
  /\ exit_code = NoExit
  /\ manifest \in Manifests
  /\ missing \in SUBSET Range(manifest)
  /\ children = <<>>
  /\ processes = <<>>
  /\ completed_files = <<>>
  /\ failed_files = <<>>
  /\ retry_counts = [f \in Files |-> 0]
  /\ current_index = 0
  /\ \E cap \in 1..MaxCap :
       /\ thresholds = [cpu_percent |-> DefaultCpuPercent,
                        memory_percent |-> DefaultMemoryPercent,
                        disk_percent |-> DefaultDiskPercent,
                        max_processes |-> cap]
       /\ original_max_processes = cap
  /\ throttled = FALSE
  /\ running_processes = {}
  /\ elapsed = 0
  /\ throttle_threshold = ThrottleTenths
  /\ recovery_threshold = RecoveryTenths
  /\ last = NoCall
  /\ calibration = NoCalibration
  /\ flags = <<>>

\* The end of ProcessManager.__init__: calibration with the first manifest
\* entry.  cal is how the measurement goes once a probe child was returned:
\* "ended" (the probe vanished while stabilizing), "error" (the counters
\* could not be read) or "measured" with k the max_processes computed.
Construct ==
  /\ pc = "constructing"
  /\ \E popen_ok \in BOOLEAN, cal \in {"ended", "error", "measured"},
        k \in 1..(MaxCap + 1) :
       LET probe == manifest[1]
           r == StartProcess(probe, popen_ok, running_processes)
           started == manifest # <<>> /\ r.result = "process"
           cleanup == started /\ cal # "ended"
       IN /\ pc' = IF manifest # <<>> /\ r.result = "FileNotFoundError"
                   THEN "ctor_raised" ELSE "ready"
          /\ raised' = IF manifest # <<>> /\ r.result = "FileNotFoundError"
                       THEN "FileNotFoundError" ELSE raised
          /\ children' =
               IF manifest = <<>> THEN children
               ELSE IF cleanup
               THEN [r.children EXCEPT ![Len(r.children)].rc = 1]
               ELSE r.children
          /\ processes' =
               IF manifest = <<>> THEN processes
               ELSE IF cleanup THEN DelKey(r.processes, probe)
               ELSE r.processes
          /\ running_processes' =
               IF manifest = <<>> THEN running_processes
               ELSE IF cleanup THEN r.running_processes \ {probe}
               ELSE r.running_processes
          /\ failed_files' =
               IF manifest = <<>> THEN failed_files ELSE r.failed_files
          /\ completed_files' =
               IF cleanup
               THEN SelectSeq(completed_files, LAMBDA f : f # probe)
               ELSE completed_files
          /\ thresholds' =
               IF started /\ cal = "measured"
               THEN [cpu_percent |-> 80, memory_percent |-> 80,
                     disk_percent |-> 80, max_processes |-> k]
               ELSE thresholds
  /\ UNCHANGED <<exit_code, manifest, missing, retry_counts, current_index,
                 throttled, original_max_processes, elapsed>>
  /\ UNCHANGED callVars

\* run() up to the first test of its outer loop
RunBegin ==
  /\ pc = "ready"
  /\ current_index' = 0
  /\ LoopTest(0, processes, failed_files)
  /\ UNCHANGED <<raised, manifest, missing, children, processes,
                 completed_files, failed_files, retry_counts>>
  /\ UNCHANGED monitorVars
  /\ UNCHANGED callVars

\* _check_processes(), the first statement of the outer loop body
CheckProcesses ==
  /\ pc = "check"
  /\ LET polled == PollFrom(1, [result |-> "None",
                                completed_files |-> completed_files,
                                failed_files |-> failed_files,
                                retry_counts |-> retry_counts,
                                finished |-> <<>>])
         removed == RemoveFinished(polled.finished,
                                   [processes |-> processes,
                                    running_processes |-> running_processes,
                                    raised |-> ""])
     IN /\ completed_files' = polled.completed_files
        /\ failed_files' = polled.failed_files
        /\ retry_counts' = polled.retry_counts
        /\ processes' = removed.processes
        /\ running_processes' = removed.running_processes
        /\ pc' = IF removed.raised # "" THEN "run_raised" ELSE "admit"
        /\ raised' = removed.raised
  /\ UNCHANGED <<exit_code, manifest, missing, children, current_index,
                 thresholds, throttled, original_max_processes, elapsed>>
  /\ UNCHANGED callVars

\* The test of the inner while of run() once the manifest is exhausted:
\* can_start_new_process is not called, the loop body is left (with its
\* sleep) and the outer loop is tested.
AdmitDone ==
  /\ pc = "admit"
  /\ ~(current_index < Len(manifest))
  /\ LoopTest(current_index, processes, failed_files)
  /\ UNCHANGED <<raised, manifest, missing, children, processes,
                 completed_files, failed_files, retry_counts, current_index>>
  /\ UNCHANGED monitorVars
  /\ UNCHANGED callVars

\* the snapshots update_process_metrics can take: none is taken (and the
\* choice is immaterial) within monitoring_interval of the last one
Snapshots == IF elapsed < monitoring_interval
             THEN {CHOOSE m \in Metrics : TRUE} ELSE Metrics

\* One test of the inner while of run() with manifest entries left: the
\* call of can_start_new_process and, when it allows, one pass through the
\* loop body; when it denies, the sleep and the test of the outer loop.
Admit ==
  /\ pc = "admit"
  /\ current_index < Len(manifest)
  /\ \E m1 \in Snapshots, m2 \in Metrics, dead \in SUBSET running_processes,
        popen_ok \in BOOLEAN :
       LET c == CanStartNewProcess(m1, dead, m2)
           input_file == manifest[current_index + 1]
           eligible == /\ ~InProcesses(input_file)
                       /\ ~InList(completed_files, input_file)
                       /\ ~InList(failed_files, input_file)
                       /\ input_file \notin c.mon.running_processes
           r == StartProcess(input_file, popen_ok, c.mon.running_processes)
       IN /\ thresholds' = c.mon.thresholds
          /\ throttled' = c.mon.throttled
          /\ elapsed' = c.mon.elapsed
          /\ original_max_processes' = original_max_processes
          /\ IF ~c.result
             THEN /\ LoopTest(current_index, processes, failed_files)
                  /\ running_processes' = c.mon.running_processes
                  /\ UNCHANGED <<raised, children, processes, failed_files,
                                 current_index>>
             ELSE IF ~eligible
             THEN /\ current_index' = current_index + 1
                  /\ running_processes' = c.mon.running_processes
                  /\ UNCHANGED <<pc, raised, exit_code, children, processes,
                                 failed_files>>
             ELSE IF r.result = "FileNotFoundError"
             THEN /\ pc' = "run_raised"
                  /\ raised' = "FileNotFoundError"
                  /\ running_processes' = c.mon.running_processes
                  /\ UNCHANGED <<exit_code, children, processes,
                                 failed_files, current_index>>
             ELSE /\ current_index' = current_index + 1
                  /\ children' = r.children
                  /\ processes' = r.processes
                  /\ failed_files' = r.failed_files
                  /\ running_processes' = r.running_processes
                  /\ UNCHANGED <<pc, raised, exit_code>>
  /\ UNCHANGED <<manifest, missing, completed_files, retry_counts>>
  /\ UNCHANGED callVars

\* a running child exits with some return code while the manager is alive
ChildExit ==
  /\ pc \in {"ready", "check", "admit"}
  /\ \E i \in 1..Len(children), code \in ExitCodes :
       /\ children[i].rc = Running
       /\ children' = [children EXCEPT ![i].rc = code]
  /\ UNCHANGED <<pc, raised, exit_code, manifest, missing, processes,
                 completed_files, failed_files, retry_counts, current_index>>
  /\ UNCHANGED monitorVars
  /\ UNCHANGED callVars

\* one second passes
Tick ==
  /\ pc \in {"ready", "check", "admit"}
  /\ elapsed < monitoring_interval
  /\ elapsed' = elapsed + 1
  /\ UNCHANGED <<pc, raised, exit_code, manifest, missing, children,
                 processes, completed_files, failed_files, retry_counts,
                 current_index, thresholds, throttled,
                 original_max_processes, running_processes>>
  /\ UNCHANGED callVars

Next ==
  \/ Construct
  \/ RunBegin
  \/ CheckProcesses
  \/ AdmitDone
  \/ Admit
  \/ ChildExit
  \/ Tick

Spec == Init /\ [][Next]_vars

\* ------------------------------------------------------ a run that is fair
\* a test of the inner while of run() that can_start_new_process lets pass
Admitted == Admit /\ current_index' > current_index

\* run() is sequential code on one thread, so each of its steps is taken
\* once it is reached, and the clock advances.  Every child that runs exits,
\* and the readings do not stay over the ceilings for ever: of the tests of
\* the inner while that come again and again, one passes.
Fairness ==
  /\ WF_vars(Construct)
  /\ WF_vars(RunBegin)
  /\ WF_vars(CheckProcesses)
  /\ WF_vars(AdmitDone)
  /\ WF_vars(Admit)
  /\ WF_vars(Tick)
  /\ WF_vars(ChildExit)
  /\ SF_vars(Admitted)

SpecLive == Init /\ [][Next]_vars /\ Fairness

\* ------------------------------------------------ a run that is interrupted
\* SIGINT while run() executes: Python raises KeyboardInterrupt in the main
\* thread; run() has no handler for it and main() catches only Exception,
\* so it leaves run() and ends the interpreter.  No statement on the way
\* touches the children.
Interrupt ==
  /\ pc \in {"check", "admit"}
  /\ pc' = "run_raised"
  /\ raised' = "KeyboardInterrupt"
  /\ UNCHANGED <<exit_code, manifest, missing, children, processes,
                 completed_files, failed_files, retry_counts, current_index>>
  /\ UNCHANGED monitorVars
  /\ UNCHANGED callVars

NextShutdown ==
  \/ Next
  \/ Interrupt

SpecShutdown == Init /\ [][NextShutdown]_vars

\* ------------------------------------------- calls on a ProcessManager
\* start_process and _check_processes called on a constructed manager by a
\* caller other than run(); an exception goes to that caller and the
\* manager stays in use.
Tracked(f) ==
  InProcesses(f) \/ InList(completed_files, f) \/ InList(failed_files, f)

\* File numbers are only names: the files on disk are passed to
\* start_process for the first time in the order of their numbers.
InOrder(input_file) ==
  \/ input_file \in missing
  \/ Tracked(input_file)
  \/ \A g \in Files \ missing : g < input_file => Tracked(g)

\* The manager as the constructor finds it: only the first manifest line is
\* read before run(), and the files missing on disk are the last ones.
InitCalls ==
  /\ pc = "constructing"
  /\ raised = ""
  /\ exit_code = NoExit
  /\ manifest \in {m \in Manifests : Len(m) <= 1}
  /\ missing \in {{f \in Files : f > k} : k \in 0..NumFiles}
  /\ children = <<>>
  /\ processes = <<>>
  /\ completed_files = <<>>
  /\ failed_files = <<>>
  /\ retry_counts = [f \in Files |-> 0]
  /\ current_index = 0
  /\ \E cap \in 1..MaxCap :
       /\ thresholds = [cpu_percent |-> DefaultCpuPercent,
                        memory_percent |-> DefaultMemoryPercent,
                        disk_percent |-> DefaultDiskPercent,
                        max_processes |-> cap]
       /\ original_max_processes = cap
  /\ throttled = FALSE
  /\ running_processes = {}
  /\ elapsed = 0
  /\ throttle_threshold = ThrottleTenths
  /\ recovery_threshold = RecoveryTenths
  /\ last = NoCall
  /\ calibration = NoCalibration
  /\ flags = <<>>

StartProcessCall ==
  /\ pc = "ready"
  /\ \E input_file \in Files, popen_ok \in BOOLEAN :
       LET r == StartProcess(input_file, popen_ok, running_processes)
       IN /\ InOrder(input_file)
          /\ children' = r.children
          /\ processes' = r.processes
          /\ failed_files' = r.failed_files
          /\ running_processes' = r.running_processes
          /\ last' = [NoCall EXCEPT
                        !.op = "start_process",
                        !.file = input_file,
                        !.pre = IF Tracked(input_file) THEN "tracked"
                                ELSE IF input_file \in missing THEN "missing"
                                ELSE "new",
                        !.result = r.result,
                        !.turn = 1 - last.turn]
  /\ UNCHANGED <<pc, raised, exit_code, manifest, missing, completed_files,
                 retry_counts, current_index, thresholds, throttled,
                 original_max_processes, elapsed, throttle_threshold,
                 recovery_threshold, calibration, flags>>

CheckProcessesCall ==
  /\ pc = "ready"
  /\ LET polled == PollFrom(1, [result |-> "None",
                                completed_files |-> completed_files,
                                failed_files |-> failed_files,
                                retry_counts |-> retry_counts,
                                finished |-> <<>>])
         removed == RemoveFinished(polled.finished,
                                   [processes |-> processes,
                                    running_processes |-> running_processes,
                                    raised |-> ""])
     IN /\ completed_files' = polled.completed_files
        /\ failed_files' = polled.failed_files
        /\ retry_counts' = polled.retry_counts
        /\ processes' = removed.processes
        /\ running_processes' = removed.running_processes
        /\ last' = [NoCall EXCEPT
                      !.op = "_check_processes",
                      !.result = IF removed.raised # "" THEN removed.raised
                                 ELSE "none",
                      !.turn = 1 - last.turn]
  /\ UNCHANGED <<pc, raised, exit_code, manifest, missing, children,
                 current_index, thresholds, throttled,
                 original_max_processes, elapsed, throttle_threshold,
                 recovery_threshold, calibration, flags>>

NextCalls ==
  \/ Construct
  \/ StartProcessCall
  \/ CheckProcessesCall
  \/ ChildExit

SpecCalls == InitCalls /\ [][NextCalls]_vars

\* ------------------------------------------- a ResourceMonitor by itself
\* A monitor constructed with its own thresholds and called directly:
\* add_process and remove_process fill the registry, update_process_metrics
\* and can_start_new_process read the host.
\*
\* thresholds and throttle/recovery settings a monitor is constructed with:
\* the defaults, throttle_threshold 1.0, and throttling from half the
\* ceiling with a memory ceiling of 1 percent
MonitorConfigs ==
  {[cpu_percent |-> 80, memory_percent |-> 80, disk_percent |-> 90,
    throttle |-> ThrottleTenths, recovery |-> RecoveryTenths],
   [cpu_percent |-> 80, memory_percent |-> 80, disk_percent |-> 90,
    throttle |-> 10, recovery |-> RecoveryTenths],
   [cpu_percent |-> 80, memory_percent |-> 1, disk_percent |-> 90,
    throttle |-> 5, recovery |-> 3]}

\* host snapshots: idle, calm, at the default recovery threshold, above the
\* default throttle threshold, at and over a ceiling, and readings of 0
\* percent
MonitorMetrics ==
  {[cpu_percent |-> 0, memory_percent |-> 0, disk_percent |-> 0],
   [cpu_percent |-> 50, memory_percent |-> 0, disk_percent |-> 50],
   [cpu_percent |-> 50, memory_percent |-> 50, disk_percent |-> 50],
   [cpu_percent |-> 56, memory_percent |-> 50, disk_percent |-> 50],
   [cpu_percent |-> 75, memory_percent |-> 50, disk_percent |-> 50],
   [cpu_percent |-> 80, memory_percent |-> 50, disk_percent |-> 50],
   [cpu_percent |-> 95, memory_percent |-> 50, disk_percent |-> 50],
   [cpu_percent |-> 50, memory_percent |-> 80, disk_percent |-> 50],
   [cpu_percent |-> 50, memory_percent |-> 50, disk_percent |-> 90]}

InitMonitor ==
  /\ pc = "monitor"
  /\ raised = ""
  /\ exit_code = NoExit
  /\ manifest = <<>>
  /\ missing = {}
  /\ children = <<>>
  /\ processes = <<>>
  /\ completed_files = <<>>
  /\ failed_files = <<>>
  /\ retry_counts = [f \in Files |-> 0]
  /\ current_index = 0
  /\ \E cfg \in MonitorConfigs, cap \in 1..MaxCap :
       /\ thresholds = [cpu_percent |-> cfg.cpu_percent,
                        memory_percent |-> cfg.memory_percent,
                        disk_percent |-> cfg.disk_percent,
                        max_processes |-> cap]
       /\ original_max_processes = cap
       /\ throttle_threshold = cfg.throttle
       /\ recovery_threshold = cfg.recovery
  /\ throttled = FALSE
  /\ running_processes = {}
  /\ elapsed = 0
  /\ last = NoCall
  /\ calibration = NoCalibration
  /\ flags = <<>>

\* what a refresh can read: nothing is read within monitoring_interval of
\* the last snapshot
MonitorSnapshots == IF elapsed < monitoring_interval
                    THEN {NoMetrics} ELSE MonitorMetrics

\* the registrations a refresh can find gone
Vanished == IF elapsed < monitoring_interval
            THEN {{}} ELSE SUBSET running_processes

managerVars == <<pc, raised, exit_code, manifest, missing, children,
                 processes, completed_files, failed_files, retry_counts,
                 current_index, calibration, flags>>

UpdateProcessMetricsCall ==
  /\ pc = "monitor"
  /\ \E m \in MonitorSnapshots, dead \in Vanished :
       LET mon == UpdateProcessMetrics(m, dead)
       IN /\ thresholds' = mon.thresholds
          /\ throttled' = mon.throttled
          /\ running_processes' = mon.running_processes
          /\ elapsed' = mon.elapsed
          /\ last' = [NoCall EXCEPT
                        !.op = "update_process_metrics",
                        !.result = "none",
                        !.fresh = ~(elapsed < monitoring_interval),
                        !.was_throttled = throttled,
                        !.snap = m,
                        !.reads = IF elapsed < monitoring_interval
                                  THEN 0 ELSE 1,
                        !.vanished = dead # {},
                        !.turn = 1 - last.turn]
  /\ UNCHANGED <<original_max_processes, throttle_threshold,
                 recovery_threshold>>
  /\ UNCHANGED managerVars

CanStartNewProcessCall ==
  /\ pc = "monitor"
  /\ \E m1 \in Snapshots, dead \in Vanished, m2 \in MonitorMetrics :
       LET c == CanStartNewProcess(m1, dead, m2)
           counted == Cardinality(c.mon.running_processes)
                        >= c.mon.thresholds.max_processes
       IN /\ counted => m2 = NoMetrics
          /\ thresholds' = c.mon.thresholds
          /\ throttled' = c.mon.throttled
          /\ running_processes' = c.mon.running_processes
          /\ elapsed' = c.mon.elapsed
          /\ last' = [NoCall EXCEPT
                        !.op = "can_start_new_process",
                        !.result = IF c.result THEN "true" ELSE "false",
                        !.fresh = ~(elapsed < monitoring_interval),
                        !.was_throttled = throttled,
                        !.probe = IF counted THEN NoMetrics ELSE m2,
                        !.reads = (IF elapsed < monitoring_interval
                                   THEN 0 ELSE 1)
                                  + (IF counted THEN 0 ELSE 1),
                        !.vanished = dead # {},
                        !.turn = 1 - last.turn]
  /\ UNCHANGED <<original_max_processes, throttle_threshold,
                 recovery_threshold>>
  /\ UNCHANGED managerVars

\* add_process(file_id, process); alive is whether psutil can read the
\* process (FALSE: NoSuchProcess or AccessDenied, logged and dropped)
AddProcessCall ==
  /\ pc = "monitor"
  /\ \E file_id \in Files, alive \in BOOLEAN :
       /\ running_processes' = IF alive THEN running_processes \cup {file_id}
                               ELSE running_processes
       /\ last' = [NoCall EXCEPT !.op = "add_process", !.file = file_id,
                                 !.result = "none", !.turn = 1 - last.turn]
  /\ UNCHANGED <<thresholds, throttled, original_max_processes, elapsed,
                 throttle_threshold, recovery_threshold>>
  /\ UNCHANGED managerVars

RemoveProcessCall ==
  /\ pc = "monitor"
  /\ \E file_id \in Files :
       /\ running_processes' = running_processes \ {file_id}
       /\ last' = [NoCall EXCEPT !.op = "remove_process", !.file = file_id,
                                 !.result = "none", !.turn = 1 - last.turn]
  /\ UNCHANGED <<thresholds, throttled, original_max_processes, elapsed,
                 throttle_threshold, recovery_threshold>>
  /\ UNCHANGED managerVars

\* time passes without a call: up to one second short of
\* monitoring_interval since the last snapshot, or up to the interval
Wait ==
  /\ pc = "monitor"
  /\ \E d \in {monitoring_interval - 1, monitoring_interval} :
       elapsed < d /\ elapsed' = d
  /\ UNCHANGED <<thresholds, throttled, original_max_processes,
                 running_processes, throttle_threshold, recovery_threshold,
                 last>>
  /\ UNCHANGED managerVars

NextMonitor ==
  \/ UpdateProcessMetricsCall
  \/ CanStartNewProcessCall
  \/ AddProcessCall
  \/ RemoveProcessCall
  \/ Wait

SpecMonitor == InitMonitor /\ [][NextMonitor]_vars

\* A ResourceMonitor constructed with ceilings of 100 percent and the
\* thresholds throttle_threshold = 0.4 and recovery_threshold = 0.3, which
\* the constructor accepts as it accepts any.
LowThresholdConfig ==
  [cpu_percent |-> 100, memory_percent |-> 100, disk_percent |-> 100,
   throttle |-> 4, recovery |-> 3]

InitLowThreshold ==
  /\ pc = "monitor"
  /\ raised = ""
  /\ exit_code = NoExit
  /\ manifest = <<>>
  /\ missing = {}
  /\ children = <<>>
  /\ processes = <<>>
  /\ completed_files = <<>>
  /\ failed_files = <<>>
  /\ retry_counts = [f \in Files |-> 0]
  /\ current_index = 0
  /\ \E cap \in 1..MaxCap :
       /\ thresholds = [cpu_percent |-> LowThresholdConfig.cpu_percent,
                        memory_percent |-> LowThresholdConfig.memory_percent,
                        disk_percent |-> LowThresholdConfig.disk_percent,
                        max_processes |-> cap]
       /\ original_max_processes = cap
  /\ throttle_threshold = LowThresholdConfig.throttle
  /\ recovery_threshold = LowThresholdConfig.recovery
  /\ throttled = FALSE
  /\ running_processes = {}
  /\ elapsed = 0
  /\ last = NoCall
  /\ calibration = NoCalibration
  /\ flags = <<>>

SpecLowThreshold == InitLowThreshold /\ [][NextMonitor]_vars

\* ------------------------------------------------------- build_command
\* build_command(input_file) on a manager whose binary has the flag
\* templates flags.  A template is its text cut at the replacement fields.
MaxFlags == 2

BinaryPath == "/usr/bin/test"

FlagTemplates == {<<"--input=", "{input_file}">>, <<"{output_file}">>,
                  <<">">>, <<"|">>, <<"-v">>}

\* the path of input file f, and os.path.basename of it
InputFile(f) == "in/" \o ToString(f)
Basename(f) == ToString(f)

\* os.path.join(output_dir, basename(input_file) + output_suffix)
OutputFile(f) == "out/" \o Basename(f) \o ".processed"

\* flag.format(input_file=..., output_file=...)
RECURSIVE Format(_, _)
Format(flag, f) ==
  IF flag = <<>> THEN ""
  ELSE (IF Head(flag) = "{input_file}" THEN InputFile(f)
        ELSE IF Head(flag) = "{output_file}" THEN OutputFile(f)
        ELSE Head(flag)) \o Format(Tail(flag), f)

\* the list build_command returns
BuildCommand(f) ==
  <<BinaryPath>> \o [i \in 1..Len(flags) |-> Format(flags[i], f)]

\* start_process passes the list to Popen without shell=True
PopenShell == FALSE

InitCommand ==
  /\ pc = "command"
  /\ raised = ""
  /\ exit_code = NoExit
  /\ manifest = <<>>
  /\ missing = {}
  /\ children = <<>>
  /\ processes = <<>>
  /\ completed_files = <<>>
  /\ failed_files = <<>>
  /\ retry_counts = [f \in Files |-> 0]
  /\ current_index = 0
  /\ \E cap \in 1..MaxCap :
       /\ thresholds = [cpu_percent |-> DefaultCpuPercent,
                        memory_percent |-> DefaultMemoryPercent,
                        disk_percent |-> DefaultDiskPercent,
                        max_processes |-> cap]
       /\ original_max_processes = cap
  /\ throttled = FALSE
  /\ running_processes = {}
  /\ elapsed = 0
  /\ throttle_threshold = ThrottleTenths
  /\ recovery_threshold = RecoveryTenths
  /\ last = NoCall
  /\ calibration = NoCalibration
  /\ flags \in UNION {[1..n -> FlagTemplates] : n \in 0..MaxFlags}

BuildCommandCall ==
  /\ pc = "command"
  /\ \E input_file \in Files :
       last' = [NoCall EXCEPT !.op = "build_command",
                              !.file = input_file,
                              !.cmd = BuildCommand(input_file),
                              !.shell = PopenShell,
                              !.turn = 1 - last.turn]
  /\ UNCHANGED <<thresholds, throttled, original_max_processes,
                 running_processes, elapsed, throttle_threshold,
                 recovery_threshold>>
  /\ UNCHANGED managerVars

NextCommand == BuildCommandCall

SpecCommand == InitCommand /\ [][NextCommand]_vars

\* ------------------------------------------ calls on a ProcessCalibrator
\* calibrate(test_file) on a ProcessCalibrator, one pass of its polling
\* loop per step.
max_attempts == 10

\* proc.cpu_percent() of the polled process, in percent
CpuSamples == {0, 50}

\* the polled pid names no process any more, or one that may not be read
Gone == -1

\* psutil.cpu_count(), 0 standing for None
CpuCounts == {0, 1, 8}

\* psutil.virtual_memory().total, memory_info.rss, disk_usage.free and
\* os.path.getsize(test_file), in bytes
TotalMemory == {4096}
RssValues == {0, 512, 2048}
FreeDisk == {8192}
FileSizes == {0, 256, 2048}

Readings == [cpu_count : CpuCounts, total_memory : TotalMemory,
             rss : RssValues, free_disk : FreeDisk, size : FileSizes]

\* max(1, int(amount * 0.8 / per))
HeadroomCap(amount, per) == Max2(1, (amount * 8) \div (per * 10))

\* max(1, int((psutil.cpu_count() or 1) * 0.8))
CpuCap(cpu_count) ==
  Max2(1, ((IF cpu_count = 0 THEN 1 ELSE cpu_count) * 8) \div 10)

\* max_processes of ProcessCalibrator.calibrate, for a test file that is
\* not empty
CalibratorMaxProcesses(r) ==
  Min2(CpuCap(r.cpu_count),
       Min2(HeadroomCap(r.total_memory, Max2(r.rss, 1024)),
            HeadroomCap(r.free_disk, r.size)))

\* max_processes of ProcessManager._calibrate_resource_usage
ManagerMaxProcesses(r) ==
  LET cpu == CpuCap(r.cpu_count)
      memory == IF r.rss > 0 THEN HeadroomCap(r.total_memory, r.rss)
                ELSE cpu
      disk == HeadroomCap(r.free_disk, Max2(1024, r.size * 2))
  IN Min2(cpu, Min2(memory, disk))

InitCalibration ==
  /\ pc = "calibrate"
  /\ raised = ""
  /\ exit_code = NoExit
  /\ manifest = <<>>
  /\ missing = {}
  /\ children = <<>>
  /\ processes = <<>>
  /\ completed_files = <<>>
  /\ failed_files = <<>>
  /\ retry_counts = [f \in Files |-> 0]
  /\ current_index = 0
  /\ \E cap \in 1..MaxCap :
       /\ thresholds = [cpu_percent |-> DefaultCpuPercent,
                        memory_percent |-> DefaultMemoryPercent,
                        disk_percent |-> DefaultDiskPercent,
                        max_processes |-> cap]
       /\ original_max_processes = cap
  /\ throttled = FALSE
  /\ running_processes = {}
  /\ elapsed = 0
  /\ throttle_threshold = ThrottleTenths
  /\ recovery_threshold = RecoveryTenths
  /\ last = NoCall
  /\ calibration = NoCalibration
  /\ flags = <<>>

\* what calibrate() leaves alone: it holds no manager and no monitor
calibratorFrame == <<raised, exit_code, manifest, missing, children,
                     processes, completed_files, failed_files, retry_counts,
                     current_index, thresholds, throttled,
                     original_max_processes, running_processes, elapsed,
                     throttle_threshold, recovery_threshold, last, flags>>

\* calibrate() up to its polling loop.  start_process returns None for a
\* missing file or a failed Popen, and otherwise a child it has already
\* waited for, whose pid names no process unless another one took it.
CalibrateBegin ==
  /\ pc = "calibrate"
  /\ \E polled \in BOOLEAN :
       IF polled
       THEN pc' = "calibrate_poll" /\ calibration' = NoCalibration
       ELSE /\ pc' = "calibrated"
            /\ calibration' = [NoCalibration EXCEPT !.result = "none"]
  /\ UNCHANGED calibratorFrame

\* one pass of the polling loop, and the loop test after it
CalibratePoll ==
  /\ pc = "calibrate_poll"
  /\ calibration.attempt < max_attempts
  /\ \E current_cpu \in CpuSamples \cup {Gone} :
       IF current_cpu = Gone
       THEN /\ pc' = "calibrated"
            /\ calibration' = [calibration EXCEPT !.result = "none"]
       ELSE IF current_cpu = calibration.last_cpu
       THEN IF calibration.stable_count + 1 >= 3
            THEN /\ pc' = "calibrate_measure"
                 /\ calibration' = [calibration EXCEPT !.stable_count = @ + 1]
            ELSE /\ pc' = IF calibration.attempt + 1 < max_attempts
                          THEN "calibrate_poll" ELSE "calibrate_measure"
                 /\ calibration' = [calibration EXCEPT
                                      !.stable_count = @ + 1,
                                      !.last_cpu = current_cpu,
                                      !.attempt = @ + 1]
       ELSE /\ pc' = IF calibration.attempt + 1 < max_attempts
                     THEN "calibrate_poll" ELSE "calibrate_measure"
            /\ calibration' = [calibration EXCEPT
                                 !.stable_count = 0,
                                 !.last_cpu = current_cpu,
                                 !.attempt = @ + 1]
  /\ UNCHANGED calibratorFrame

\* the measurement after the loop: the counters cannot be read, or they
\* read r
CalibrateMeasure ==
  /\ pc = "calibrate_measure"
  /\ \E readable \in BOOLEAN, r \in Readings :
       IF ~readable
       THEN /\ r = CHOOSE any \in Readings : TRUE
            /\ pc' = "calibrated"
            /\ calibration' = [calibration EXCEPT !.result = "none"]
       ELSE IF r.size = 0
       THEN /\ pc' = "calibrate_raised"
            /\ calibration' = [calibration EXCEPT
                                 !.result = "ZeroDivisionError",
                                 !.readings = r,
                                 !.manager_max_processes =
                                    ManagerMaxProcesses(r)]
       ELSE /\ pc' = "calibrated"
            /\ calibration' = [calibration EXCEPT
                                 !.result = "proposed",
                                 !.readings = r,
                                 !.max_processes = CalibratorMaxProcesses(r),
                                 !.manager_max_processes =
                                    ManagerMaxProcesses(r)]
  /\ UNCHANGED calibratorFrame

NextCalibration ==
  \/ CalibrateBegin
  \/ CalibratePoll
  \/ CalibrateMeasure

SpecCalibration == InitCalibration /\ [][NextCalibration]_vars

\* ------------------------------------------------------------- properties
\* run() is over: it returned, or an exception left it
RunTerminated == pc \in {"done", "run_raised"}

Settled(f) == InList(completed_files, f) \/ InList(failed_files, f)

AllCompleted == \A f \in Range(manifest) : InList(completed_files, f)

ChildrenOf(f) == {i \in 1..Len(children) : children[i].file = f}

\* C1: when run() terminates, every manifest entry is in completed_files or
\* in failed_files.
C1_AllSettledAtTermination ==
  RunTerminated => \A f \in Range(manifest) : Settled(f)

\* C2: no input file is ever in both completed_files and failed_files.
C2_OutcomeSetsDisjoint ==
  \A f \in Files :
    ~(InList(completed_files, f) /\ InList(failed_files, f))

\* C3: the number of entries of the active map never exceeds the effective
\* max_processes.
C3_ActiveWithinCap == Len(processes) <= thresholds.max_processes

\* C4: a file never has two running children, and no child is forked for a
\* file that has an entry in the active map.
C4_OneChildPerFile ==
  /\ [](\A f \in Files : Live(f) <= 1)
  /\ [][\A f \in Files : InProcesses(f) => Forks(f)' = Forks(f)]_vars

\* a manifest line repeating a file was passed over while the child of its
\* earlier line was still running
C4_Witness ==
  \E i \in 1..current_index, j \in 1..current_index :
    /\ i < j
    /\ manifest[i] = manifest[j]
    /\ InProcesses(manifest[i])
    /\ Live(manifest[i]) = 1

\* C5: over a whole run at most max_retries + 1 children are forked for any
\* file.
C5_ForksBounded == \A f \in Files : Forks(f) <= max_retries + 1

\* run() is over and some file had a child whose failures used up its retries
C5_Witness ==
  /\ RunTerminated
  /\ \E f \in Files : Forks(f) >= 1 /\ retry_counts[f] = max_retries

\* C6: once the failures of a file whose children all exit non-zero have
\* used up its retries, exactly max_retries children have been forked for
\* it, it is in failed_files, and run() returns 1.
C6_ThreeForksThenFailed ==
  \A f \in Files :
    (/\ retry_counts[f] = max_retries
     /\ \A i \in ChildrenOf(f) : children[i].rc = 1)
    => /\ Forks(f) = max_retries
       /\ InList(failed_files, f)
       /\ (RunTerminated => exit_code = 1)

\* C7: a file is re-submitted after each failure short of max_retries, so
\* each failure counted in retry_counts is the exit of a child of its own.
C7_RetryResubmits == \A f \in Files : retry_counts[f] <= Forks(f)

\* C8: retry_counts never exceeds max_retries, a file whose count equals
\* max_retries is in failed_files, and no child is forked for it afterwards.
C8_RetryCountBounded ==
  /\ [](\A f \in Files :
          /\ retry_counts[f] <= max_retries
          /\ (retry_counts[f] = max_retries => InList(failed_files, f)))
  /\ [][\A f \in Files :
          retry_counts[f] = max_retries => Forks(f)' = Forks(f)]_vars

\* the failures of some file's child have used up its retries
C8_Witness ==
  \E f \in Files : retry_counts[f] = max_retries /\ InList(failed_files, f)

\* C9: run() returns 0 exactly when failed_files is empty and every manifest
\* entry is completed, and 1 otherwise; when every child exits 0 it returns 0
\* with every entry completed and none failed.
C9_ExitCode ==
  RunTerminated =>
    /\ exit_code = (IF failed_files = <<>> /\ AllCompleted THEN 0 ELSE 1)
    /\ ((/\ \A f \in Range(manifest) : ChildrenOf(f) # {}
         /\ \A i \in 1..Len(children) : children[i].rc = 0)
        => exit_code = 0 /\ AllCompleted /\ failed_files = <<>>)

\* C10: a manifest entry missing on disk does not abort run() with an
\* exception; it is recorded in failed_files without a fork, and run()
\* returns 1.
C10_MissingInputRecorded ==
  /\ (pc = "run_raised" => raised # "FileNotFoundError")
  /\ (pc = "done" =>
        \A f \in Range(manifest) \cap missing :
          InList(failed_files, f) /\ Forks(f) = 0 /\ exit_code = 1)

\* the part of the manager's state start_process can write
startVars == <<children, processes, running_processes, completed_files,
               failed_files, retry_counts>>

\* C11: start_process(f) for an f that is untracked and missing on disk
\* raises FileNotFoundError, forks nothing and leaves the active map, the
\* registry, completed_files, failed_files and retry_counts as they were.
C11_MissingRaisesUnchanged ==
  [][\A f \in Files :
       (/\ Called("start_process")
        /\ last'.file = f
        /\ ~Tracked(f)
        /\ f \in missing)
       => /\ last'.result = "FileNotFoundError"
          /\ UNCHANGED startVars]_vars

\* start_process was called for a missing file after another file had been
\* forked
C11_Witness ==
  /\ last.op = "start_process"
  /\ last.pre = "missing"
  /\ last.result = "FileNotFoundError"
  /\ children # <<>>

\* C12: start_process(f) for an f in the active map, in completed_files or
\* in failed_files returns none, forks nothing and changes no state.
C12_TrackedRejected ==
  [][\A f \in Files :
       (/\ Called("start_process")
        /\ last'.file = f
        /\ Tracked(f))
       => /\ last'.result = "none"
          /\ UNCHANGED startVars]_vars

\* start_process was called for a file that is in failed_files but no
\* longer in the active map
C12_Witness ==
  /\ last.op = "start_process"
  /\ last.pre = "tracked"
  /\ InList(failed_files, last.file)
  /\ ~InProcesses(last.file)

\* C13: a start_process(f) that ends by an exception of the fork or of the
\* registration (it returns none for an untracked f that is on disk) has put
\* f in failed_files and left f out of the active map.
C13_FailedStartNotActive ==
  (/\ last.op = "start_process"
   /\ last.pre = "new"
   /\ last.result = "none")
  => /\ InList(failed_files, last.file)
     /\ ~InProcesses(last.file)

\* --------------------------------------------- properties of the monitor
\* a call of update_process_metrics that took a fresh snapshot
Refreshed == Called("update_process_metrics") /\ last'.fresh

\* the readings as _apply_throttling divides by them
Clamped(m) == [cpu_percent |-> Max2(m.cpu_percent, 1),
               memory_percent |-> Max2(m.memory_percent, 1),
               disk_percent |-> Max2(m.disk_percent, 1)]

\* q <= n * (ceiling / reading) * 0.8 for each resource with a reading
\* other than 0
Within(q, n, r, thr) ==
  /\ 10 * q * r.cpu_percent <= 8 * n * thr.cpu_percent
  /\ 10 * q * r.memory_percent <= 8 * n * thr.memory_percent
  /\ 10 * q * r.disk_percent <= 8 * n * thr.disk_percent

\* floor(n * min(ceiling / reading) * 0.8) over the readings r
RatioCap(n, r, thr) ==
  CHOOSE q \in 0..(n * 100) :
    /\ Within(q, n, r, thr)
    /\ (q = n * 100 \/ ~Within(q + 1, n, r, thr))

OverCeiling(m, thr) ==
  \/ m.cpu_percent > thr.cpu_percent
  \/ m.memory_percent > thr.memory_percent
  \/ m.disk_percent > thr.disk_percent

\* the pressure of snapshot m, the largest reading/ceiling ratio, lies in
\* the closed band from recovery_threshold to throttle_threshold
InBand(m, thr) ==
  /\ \/ 10 * m.cpu_percent >= recovery_threshold * thr.cpu_percent
     \/ 10 * m.memory_percent >= recovery_threshold * thr.memory_percent
     \/ 10 * m.disk_percent >= recovery_threshold * thr.disk_percent
  /\ 10 * m.cpu_percent <= throttle_threshold * thr.cpu_percent
  /\ 10 * m.memory_percent <= throttle_threshold * thr.memory_percent
  /\ 10 * m.disk_percent <= throttle_threshold * thr.disk_percent

\* C14: can_start_new_process returns false when the number of registered
\* children is at least max_processes, and otherwise true exactly when the
\* three readings are strictly below their ceilings.
C14_AdmissionTest ==
  last.op = "can_start_new_process" =>
    last.result =
      (IF Cardinality(running_processes) >= thresholds.max_processes
       THEN "false"
       ELSE IF /\ last.probe.cpu_percent < thresholds.cpu_percent
               /\ last.probe.memory_percent < thresholds.memory_percent
               /\ last.probe.disk_percent < thresholds.disk_percent
       THEN "true" ELSE "false")

\* admission was denied below the count cap at a cpu reading equal to its
\* ceiling
C14_Witness ==
  /\ last.op = "can_start_new_process"
  /\ last.result = "false"
  /\ Cardinality(running_processes) < thresholds.max_processes
  /\ running_processes # {}
  /\ last.probe.cpu_percent = thresholds.cpu_percent

\* C15 as claimed: a fresh snapshot above throttle_threshold while not
\* throttled sets throttled and max_processes to
\* max(1, floor(n * min(ceiling / reading) * 0.8)), readings below 1 percent
\* taken as they are.
C15_ThrottledCapUnclamped ==
  [][(Refreshed /\ ~throttled /\ AboveThrottle(last'.snap, thresholds))
     => /\ throttled'
        /\ thresholds'.max_processes =
             Max2(1, RatioCap(Cardinality(running_processes), last'.snap,
                              thresholds))]_vars

\* C15 amended: the same with every reading below 1 percent taken as 1.
C15_ThrottledCap ==
  [][(Refreshed /\ ~throttled /\ AboveThrottle(last'.snap, thresholds))
     => /\ throttled'
        /\ thresholds'.max_processes =
             Max2(1, RatioCap(Cardinality(running_processes),
                              Clamped(last'.snap), thresholds))]_vars

\* throttling was activated with two children registered by a snapshot
\* holding a reading of 0 percent
C15_Witness ==
  /\ last.op = "update_process_metrics"
  /\ last.fresh
  /\ ~last.was_throttled
  /\ throttled
  /\ Cardinality(running_processes) = 2
  /\ last.snap.memory_percent = 0

\* C16: max_processes is at least 1 in every state of a run.
C16_CapAtLeastOne == thresholds.max_processes >= 1

\* throttling was activated with no child registered
C16_Witness ==
  /\ throttled
  /\ running_processes = {}
  /\ processes # <<>>
  /\ thresholds.max_processes = 1
  /\ original_max_processes > 1

C18_RecoveryRestores ==
  [][(Refreshed /\ throttled /\ BelowRecovery(last'.snap, thresholds))
     => /\ ~throttled'
        /\ thresholds'.max_processes = original_max_processes]_vars

\* a throttled monitor has recovered
C18_Witness ==
  /\ last.op = "update_process_metrics"
  /\ last.fresh
  /\ last.was_throttled
  /\ ~throttled
  /\ original_max_processes >= 2
  /\ thresholds.max_processes = original_max_processes

C20_NeverThrottledAtOne == throttle_threshold = 10 => ~throttled

\* C20 amended: with throttle_threshold 1.0 throttling activates only on a
\* snapshot with a reading above its ceiling.
C20_ThrottledOnlyOverCeiling ==
  [][(/\ throttle_threshold = 10
      /\ Called("update_process_metrics")
      /\ ~throttled
      /\ ~OverCeiling(last'.snap, thresholds))
     => ~throttled']_vars

\* with throttle_threshold 1.0 a fresh snapshot with the cpu reading at its
\* ceiling left the monitor unthrottled
C20_Witness ==
  /\ throttle_threshold = 10
  /\ last.op = "update_process_metrics"
  /\ last.fresh
  /\ ~last.was_throttled
  /\ ~throttled
  /\ last.snap.cpu_percent = thresholds.cpu_percent

\* C21: update_process_metrics called less than monitoring_interval after
\* the last snapshot (or after construction) leaves throttled, the
\* thresholds, the registry and last_check as they were.
C21_DebouncedRefreshNoOp ==
  [][(Called("update_process_metrics") /\ elapsed < monitoring_interval)
     => UNCHANGED <<throttled, thresholds, running_processes, elapsed>>]_vars

\* update_process_metrics was called on a throttled monitor with children
\* registered, one second before the interval was over
C21_Witness ==
  /\ last.op = "update_process_metrics"
  /\ ~last.fresh
  /\ elapsed = monitoring_interval - 1
  /\ throttled
  /\ running_processes # {}

\* C22: a call made less than monitoring_interval after the last snapshot
\* reads no host snapshot, and any call reads at most one.
C22_OneSnapshotPerInterval ==
  (last.op \in {"update_process_metrics", "can_start_new_process"})
  => /\ last.reads <= 1
     /\ (~last.fresh => last.reads = 0)

\* C23: a refresh that activates or ends throttling and finds every
\* registered process alive leaves the registry as it was; with the
\* thresholds only max_processes changes.
C23_ThrottleKeepsRegistry ==
  [][(throttled' # throttled /\ ~last'.vanished)
     => /\ running_processes' = running_processes
        /\ thresholds' = [thresholds EXCEPT
                            !.max_processes = thresholds'.max_processes]
        /\ UNCHANGED <<processes, children>>]_vars

\* a throttled monitor with two children registered has recovered
C23_Witness ==
  /\ last.fresh
  /\ last.was_throttled
  /\ ~throttled
  /\ ~last.vanished
  /\ Cardinality(running_processes) = 2

\* C24: a _check_processes call that reaps a finished child whose
\* registration is absent from the monitor's registry returns without an
\* exception.
C24_ReapCompletes ==
  (last.op = "_check_processes") => last.result = "none"

\* C25: once the constructor has run the calibration on a probe child, the
\* probe input is in none of the active map, the registry, completed_files
\* and failed_files, and its child has ended.
C25_ProbeUntrackedAfterCalibration ==
  (pc = "ready" /\ children # <<>>)
  => /\ ~Tracked(manifest[1])
     /\ manifest[1] \notin running_processes
     /\ children[1].rc # Running

\* C26: when the probe could not be started, the constructor leaves the
\* thresholds as configured and the probe input in no outcome set and not
\* in the active map.
C26_FailedCalibrationLeavesProbe ==
  (pc = "ready" /\ manifest # <<>> /\ children = <<>>)
  => /\ thresholds.max_processes = original_max_processes
     /\ thresholds.cpu_percent = DefaultCpuPercent
     /\ thresholds.memory_percent = DefaultMemoryPercent
     /\ thresholds.disk_percent = DefaultDiskPercent
     /\ ~Tracked(manifest[1])

\* C27: with an empty manifest the constructor raises nothing, no child is
\* ever started, the outcome sets stay empty and run() returns 0.
C27_EmptyManifest ==
  (manifest = <<>>)
  => /\ children = <<>>
     /\ processes = <<>>
     /\ running_processes = {}
     /\ completed_files = <<>>
     /\ failed_files = <<>>
     /\ pc \in {"constructing", "ready", "done"}
     /\ (pc = "done" => exit_code = 0)

\* run() has returned 0 on an empty manifest
C27_Witness ==
  manifest = <<>> /\ pc = "done" /\ exit_code = 0

\* C28: a measurement that read all its counters proposes max_processes =
\* min(cap_cpu, cap_mem, cap_disk), each at least 1, with cap_cpu =
\* floor(cpu_count x 0.8) for cpu_count defaulting to 1, cap_mem =
\* floor(total_memory x 0.8 / max(rss, 1024)) and cap_disk =
\* floor(free_disk x 0.8 / max(1024, 2 x size)), in ProcessCalibrator and in
\* ProcessManager alike.
C28_ProposedCap ==
  (calibration.readings # NoReadings)
  => LET r == calibration.readings
         cap_cpu == Max2(1, (Max2(r.cpu_count, 1) * 8) \div 10)
         cap_mem == Max2(1, (r.total_memory * 8)
                              \div (Max2(r.rss, 1024) * 10))
         cap_disk == Max2(1, (r.free_disk * 8)
                               \div (Max2(1024, 2 * r.size) * 10))
         proposed == Min2(cap_cpu, Min2(cap_mem, cap_disk))
     IN /\ calibration.result = "proposed"
        /\ calibration.max_processes = proposed
        /\ calibration.manager_max_processes = proposed

\* C29: at no instant after the constructor are more children running than
\* the cap the constructor's calibration left in force (thresholds'
\* max_processes when the constructor returns, kept in
\* original_max_processes while throttling lowers the other).
C29_RunningWithinCalibratedCap ==
  (pc \notin {"constructing", "ctor_raised"})
  => Cardinality({i \in 1..Len(children) : children[i].rc = Running})
       <= original_max_processes

\* C30: after 10 polls without three stable samples in a row the calibrator
\* does not measure and proposes nothing.
C30_GivesUpAfterTenPolls ==
  (calibration.attempt = max_attempts /\ calibration.stable_count < 3)
  => /\ pc # "calibrate_measure"
     /\ calibration.result \in {"", "none"}

\* C31: once a shutdown request has ended run(), no child is active: the
\* active map is empty and no forked child is still running.
C31_ShutdownLeavesNoChild ==
  (raised = "KeyboardInterrupt")
  => /\ processes = <<>>
     /\ \A i \in 1..Len(children) : children[i].rc # Running

\* C32: with a configured max_processes of 1 a child is forked only when
\* every child forked before it has been reaped and its file settled.
C32_SequentialAtCapOne ==
  [][(original_max_processes = 1 /\ Len(children') > Len(children))
     => \A i \in 1..Len(children) :
          /\ children[i].rc # Running
          /\ ~InProcesses(children[i].file)
          /\ Settled(children[i].file)]_vars

\* C33: build_command returns the binary path followed by the expanded
\* flags, and the command is run through a shell exactly when an expanded
\* flag is one of the tokens >, >>, | and <.
C33_CommandAndShell ==
  (last.op = "build_command")
  => /\ Len(last.cmd) = Len(flags) + 1
     /\ last.cmd[1] = BinaryPath
     /\ \A i \in 1..Len(flags) : last.cmd[i + 1] = Format(flags[i], last.file)
     /\ last.shell
          <=> \E i \in 2..Len(last.cmd) : last.cmd[i] \in {">", ">>", "|", "<"}

\* C34: a _check_processes call removes from the active map and from the
\* registry every file whose child it finds exited with a non-zero code,
\* whether or not retries remain.
C34_FailedChildLeavesActiveMap ==
  [][Called("_check_processes")
     => \A i \in 1..Len(processes) :
          (children[processes[i].child].rc \notin {Running, 0})
          => /\ \A j \in 1..Len(processes') :
                  processes'[j].file # processes[i].file
             /\ processes[i].file \notin running_processes']_vars

\* C35: retry_counts[f] never exceeds the number of children forked for f
\* that have exited with a non-zero code.
C35_RetryCountIsFailedChildren ==
  \A f \in Files :
    retry_counts[f]
      <= Cardinality({i \in ChildrenOf(f) : children[i].rc \notin {Running, 0}})

\* C36: with recovery_threshold below throttle_threshold, a fresh refresh
\* whose pressure lies in the band between them changes neither throttled
\* nor the thresholds; and a fresh refresh that follows one which changed
\* throttled, and reads the same snapshot, does not change it back.
C36_Hysteresis ==
  [][(Refreshed /\ recovery_threshold < throttle_threshold)
     => /\ InBand(last'.snap, thresholds)
           => UNCHANGED <<throttled, thresholds>>
        /\ (/\ last.op = "update_process_metrics"
            /\ last.fresh
            /\ last.was_throttled # throttled
            /\ last'.snap = last.snap)
           => throttled' = throttled]_vars

\* a throttled monitor stayed throttled on a fresh snapshot in the band,
\* with the cap throttling gave it
C36_Witness ==
  /\ last.op = "update_process_metrics"
  /\ last.fresh
  /\ last.was_throttled
  /\ throttled
  /\ InBand(last.snap, thresholds)
  /\ thresholds.max_processes < original_max_processes

\* C37: a throttle activation, with no more children registered than the
\* cap in force allows, sets max_processes to no more than it was just
\* before and to no more than original_max_processes.
C37_ThrottleNeverRaisesCap ==
  [][(/\ ~throttled
      /\ throttled'
      /\ Cardinality(running_processes) <= thresholds.max_processes)
     => /\ thresholds'.max_processes <= thresholds.max_processes
        /\ thresholds'.max_processes <= original_max_processes]_vars

\* C38: between the steps of the work loop of run() the files registered
\* with the monitor are exactly the files of the active map.
C38_RegistryIsActiveKeys ==
  (pc \in {"check", "admit"})
  => running_processes = {processes[i].file : i \in 1..Len(processes)}

\* every child that was started has exited
AllChildrenExited == \A i \in 1..Len(children) : children[i].rc # Running

\* run() returned with every manifest entry visited and the active map empty
RunReturnedDrained ==
  /\ pc = "done"
  /\ current_index = Len(manifest)
  /\ processes = <<>>

\* C39: in a fair run where every manifest entry is on disk and the
\* children that were started all exit, run() eventually returns with the
\* manifest drained and no active child left.
C39_RunTerminates ==
  (missing = {} /\ <>[]AllChildrenExited) => <>RunReturnedDrained

\* the number of entries of list that are f
Count(list, f) == Cardinality({i \in 1..Len(list) : list[i] = f})

\* C40: a path that the manifest lists more than once never has two running
\* children and is at most once in completed_files and at most once in
\* failed_files.
C40_DuplicatesIgnored ==
  \A f \in Files :
    Count(manifest, f) > 1
    => /\ Cardinality({i \in ChildrenOf(f) : children[i].rc = Running}) <= 1
       /\ Count(completed_files, f) <= 1
       /\ Count(failed_files, f) <= 1

====
